---- MODULE Spec2Model ----
(***************************************************************************)
(* Model of the embedded joint controller of the 6-DOF robotic arm         *)
(* (controls/controls.ino, controls/controls_config.h).                    *)
(*                                                                         *)
(* A String is a sequence of one-character strings.  The Arduino String    *)
(* methods use 0-based positions; the operators below keep that            *)
(* convention, so that indexOf returns -1 when nothing is found.           *)
(* A float is kept in tenths of a degree (45.5 is 455).                    *)
(***************************************************************************)
EXTENDS Integers, Sequences, FiniteSets, TLC

\* ------------------------------------------------------------------------
\* Program constants (controls_config.h)
\* ------------------------------------------------------------------------
MODE_IDLE == 0
MODE_CALIBRATION == 1
MODE_MOVE == 2
MODE_RESERVED == 3
NUM_JOINTS == 6
NUM_ENCODERS == 6
TELEM_INTERVAL_MS == 20
PACKET_MAX_LEN == 256
BUTTON_DEBOUNCE_MS == 200
DEFAULT_JOINT1_EN == 0
DEFAULT_JOINT2_EN == 1
DEFAULT_JOINT3_EN == 1
DEFAULT_JOINT4_EN == 1
DEFAULT_JOINT5_EN == 1
DEFAULT_JOINT6_EN == 0
\* the domain of a target angle, 0.0 to 180.0, in tenths of a degree
JOINT_MIN_ANGLE == 0
JOINT_MAX_ANGLE == 1800

\* delays of controls.ino, in milliseconds
SETUP_DELAY_MS == 1000
ACK_SETTLE_MS == 10
ACK_BLINK_MS == 1000
LOOP_DELAY_MS == 5

\* unsigned long is 32 bits wide on the target.  The model checker's
\* integers are 32-bit signed, so millis() is kept modulo 2^30, the widest
\* modulus whose sums and differences it can still represent; every
\* interval the program compares (20 ms, 200 ms) is far below either
\* modulus, so wrap-around acts the same way.
ULONG_BITS == 30
ULONG_MOD == 2 ^ ULONG_BITS

CMD_SET_MODE == <<"S", "E", "T", "_", "M", "O", "D", "E">>
CMD_JOINTS_TO_ANGLE == <<"J", "O", "I", "N", "T", "S", "_", "T", "O", "_", "A", "N", "G", "L", "E">>
CMD_JOINT_EN == <<"J", "O", "I", "N", "T", "_", "E", "N">>
CMD_ESTOP == <<"E", "S", "T", "O", "P">>
CMD_CALIBRATE_JOINT == <<"C", "A", "L", "I", "B", "R", "A", "T", "E", "_", "J", "O", "I", "N", "T">>

\* string literals of controls.ino
TYPE_CMD == <<"T", "Y", "P", "E", "=", "C", "M", "D">>
TYPE_ACK == <<"T", "Y", "P", "E", "=", "A", "C", "K">>
KEY_CMD == <<"C", "M", "D", "=">>
KEY_MODE == <<"M", "O", "D", "E", "=">>
KEY_JOINT == <<"J", "O", "I", "N", "T", "_">>
KEY_ANG == <<"_", "A", "N", "G", "=">>
KEY_EN == <<"_", "E", "N", "=">>
KEY_JOINT_ID == <<"J", "O", "I", "N", "T", "_", "I", "D", "=">>
TELEM_HEAD == <<"T", "Y", "P", "E", "=", "D", "A", "T", "A", ",", "C", "M", "D", "=", "J", "O", "I", "N", "T", "_", "A", "N", "G", "L", "E", "S">>
TELEM_ENCODER == <<",", "E", "N", "C", "O", "D", "E", "R", "_">>
TELEM_ANGLE == <<"_", "A", "N", "G", "L", "E", "=">>
TELEM_BUTTON == <<",", "B", "U", "T", "T", "O", "N", "=">>

Comma == ","
LF == "\n"
CR == "\r"

\* ------------------------------------------------------------------------
\* Arduino String
\* ------------------------------------------------------------------------
Min(S) == CHOOSE x \in S : \A y \in S : x <= y

Digits == <<"0", "1", "2", "3", "4", "5", "6", "7", "8", "9">>

IsDigit(c) == \E d \in 1..10 : Digits[d] = c

DigitVal(c) == (CHOOSE d \in 1..10 : Digits[d] = c) - 1

\* String(i) for a one-digit integer
StringOfInt(i) == <<Digits[i + 1]>>

\* String::indexOf(const String&): first position of pat in s, or -1
indexOf(s, pat) ==
  LET found == {i \in 0..(Len(s) - Len(pat)) :
                  \A j \in 1..Len(pat) : s[i + j] = pat[j]}
  IN IF found = {} THEN -1 ELSE Min(found)

\* String::indexOf(char, fromIndex)
indexOfChar(s, ch, from) ==
  LET found == {i \in from..(Len(s) - 1) : s[i + 1] = ch}
  IN IF found = {} THEN -1 ELSE Min(found)

\* String::substring(left, right): characters left .. right-1
substring(s, left, right) ==
  LET l == IF left > right THEN right ELSE left
      r0 == IF left > right THEN left ELSE right
      r == IF r0 > Len(s) THEN Len(s) ELSE r0
  IN IF l >= Len(s) THEN <<>> ELSE SubSeq(s, l + 1, r)

\* String::startsWith
startsWith(s, pat) ==
  /\ Len(pat) <= Len(s)
  /\ \A j \in 1..Len(pat) : s[j] = pat[j]

\* String::replace(find, replace): every occurrence, left to right
RECURSIVE replace(_, _, _)
replace(s, find, repl) ==
  LET i == IF Len(find) = 0 THEN -1 ELSE indexOf(s, find)
  IN IF i = -1 THEN s
     ELSE SubSeq(s, 1, i) \o repl
            \o replace(SubSeq(s, i + Len(find) + 1, Len(s)), find, repl)

\* the decimal digits of s from 1-based position i on, accumulated into acc
RECURSIVE atolDigits(_, _, _)
atolDigits(s, i, acc) ==
  IF i > Len(s) \/ ~IsDigit(s[i]) THEN acc
  ELSE atolDigits(s, i + 1, acc * 10 + DigitVal(s[i]))

\* 1-based position of the first character of s at or after i that is not
\* a blank
RECURSIVE skipBlanks(_, _)
skipBlanks(s, i) ==
  IF i <= Len(s) /\ s[i] = " " THEN skipBlanks(s, i + 1) ELSE i

\* 1-based position after the run of digits that starts at i
RECURSIVE skipDigits(_, _)
skipDigits(s, i) ==
  IF i <= Len(s) /\ IsDigit(s[i]) THEN skipDigits(s, i + 1) ELSE i

\* String::toInt (atol): leading blanks, an optional sign, then the longest
\* run of digits; 0 when there is none
toInt(s) ==
  LET b == skipBlanks(s, 1)
      neg == b <= Len(s) /\ s[b] = "-"
      d == IF b <= Len(s) /\ s[b] \in {"-", "+"} THEN b + 1 ELSE b
      v == atolDigits(s, d, 0)
  IN IF neg THEN 0 - v ELSE v

\* String::toFloat (atof), in tenths: sign, integer digits and the first
\* digit after the decimal point; 0 when no number starts the text
toFloat(s) ==
  LET b == skipBlanks(s, 1)
      neg == b <= Len(s) /\ s[b] = "-"
      d == IF b <= Len(s) /\ s[b] \in {"-", "+"} THEN b + 1 ELSE b
      e == skipDigits(s, d)
      whole == atolDigits(s, d, 0)
      frac == IF e + 1 <= Len(s) /\ s[e] = "." /\ IsDigit(s[e + 1])
              THEN DigitVal(s[e + 1]) ELSE 0
      v == whole * 10 + frac
  IN IF neg THEN 0 - v ELSE v

\* ------------------------------------------------------------------------
\* Device state
\* ------------------------------------------------------------------------
VARIABLES
  currentMode,        \* int currentMode
  jointTargetAngles,  \* float jointTargetAngles[NUM_JOINTS], in tenths
  jointEnabled,       \* bool jointEnabled[NUM_JOINTS]
  inLine,             \* String inLine
  lastTelemMs,        \* unsigned long lastTelemMs
  latchedState,       \* readButton: static int latchedState
  lastChangeMs,       \* readButton: static unsigned long lastChangeMs
  now,                \* millis()
  rx,                 \* bytes held by Serial, not yet read
  wire,               \* chunks the host has written that have not arrived
  pc,                 \* position of loop()
  serialOut,          \* lines written to Serial since the host wrote last
  prev,               \* mode, flags and targets when the host wrote last
  lastLine,           \* the line the host wrote last
  sent,               \* number of lines the host has written
  passes,             \* number of completed passes of loop()
  passStartBuf,       \* the bytes Serial held when the current pass began
  passRead,           \* bytes read by listenPackets in the current pass
  passArrived,        \* bytes arrived during the current pass
  passPending,        \* Serial.available() at the telemetry check of the pass
  passOut,            \* lines written to Serial in the current pass
  down,               \* host: lines written to the device, not yet read by it
  up,                 \* host: lines the device wrote, not yet read by the host
  mailbox,            \* host: current_ack, the single-slot mailbox
  cpc,                \* host: position of send_and_wait
  cmdText,            \* host: command_text of the call in progress
  attempt,            \* host: number of the attempt in progress
  polls,              \* host: polls of the mailbox made in this attempt
  ack,                \* host: the value the last poll copied out
  result,             \* host: what the last call returned
  writes,             \* host: writes of command_text made by this call
  txCount,            \* host: lines written to the device so far
  calls,              \* host: calls of send_and_wait so far
  stores,             \* host: values the receiver loop has stored so far
  startSlot,          \* host: the mailbox as the current attempt found it
  okAck,              \* host: the value the last successful call verified
  noiseRead,          \* host: a poll of this attempt read a non-matching value
  matchStored,        \* host: a matching ACK was stored after that, in time
  lastVerify,         \* host: arguments and outcome of the last verify
  sink,               \* host: records handed to the telemetry sink
  dropped,            \* host: lines the receiver loop logged and discarded
  twice,              \* Deliver: does the line repeat the one before, and
                      \* what the device wrote for that one
  sinceTelem,         \* milliseconds since the last telemetry packet, -1
                      \* before the first, counted up to TELEM_INTERVAL_MS
  telemGap,           \* sinceTelem when the last telemetry packet was written
  ackSeen             \* mode, flags and targets as each sendAck found them,
                      \* for the ACKs written since the host wrote last

vars == <<currentMode, jointTargetAngles, jointEnabled, inLine, lastTelemMs,
          latchedState, lastChangeMs, now, rx, wire, pc, serialOut, prev,
          lastLine, sent, passes, passStartBuf, passRead, passArrived,
          passPending, passOut, down, up, mailbox, cpc, cmdText, attempt,
          polls, ack, result, writes, txCount, calls, stores, startSlot,
          okAck, noiseRead, matchStored, lastVerify, sink, dropped, twice,
          sinceTelem, telemGap, ackSeen>>

\* the state of the host side: link, mailbox and coordinator
hostVars == <<down, up, mailbox, cpc, cmdText, attempt, polls, ack, result,
              writes, txCount, calls, stores, startSlot, okAck, noiseRead,
              matchStored, lastVerify, sink, dropped>>

\* what the receiver loop hands on or discards
recvVars == <<sink, dropped>>

\* what is recorded about repeated lines, the spacing of telemetry and the
\* state at each ACK
histVars == <<twice, sinceTelem, telemGap, ackSeen>>

Joints == 1..NUM_JOINTS

\* the part of the state a command handler works on, with the ACKs it wrote
Dev(m, en, tgt) ==
  [currentMode |-> m, jointEnabled |-> en, jointTargetAngles |-> tgt,
   acks |-> <<>>, seen |-> <<>>]

\* ------------------------------------------------------------------------
\* sendAck, parseAndExecutePacket
\* ------------------------------------------------------------------------
\* the text sendAck prints
ackText(originalPacket) == replace(originalPacket, TYPE_CMD, TYPE_ACK)

\* sendAck prints the ACK; the globals are what its caller has made them
sendAck(originalPacket, d) ==
  [d EXCEPT !.acks = Append(@, ackText(originalPacket)),
            !.seen = Append(@, [currentMode |-> d.currentMode,
                                jointEnabled |-> d.jointEnabled,
                                jointTargetAngles |-> d.jointTargetAngles])]

\* end of the value that starts at or after pos: the next comma, else the
\* next newline, else the end of the packet
valueEnd(packet, pos) ==
  LET c == indexOfChar(packet, Comma, pos)
      n == indexOfChar(packet, LF, pos)
  IN IF c # -1 THEN c ELSE IF n # -1 THEN n ELSE Len(packet)

\* execSetMode that calls sendAck first and assigns currentMode after it
execSetMode_AckFirst(packet, d) ==
  LET modePos == indexOf(packet, KEY_MODE)
  IN IF modePos = -1 THEN d
     ELSE LET modeEnd == valueEnd(packet, modePos)
              newMode == toInt(substring(packet, modePos + 5, modeEnd))
          IN IF newMode >= 0 /\ newMode <= 3
             THEN [sendAck(packet, d) EXCEPT !.currentMode = newMode]
             ELSE d

\* execSetMode with the range check one short: RESERVED is refused
execSetMode_NoReserved(packet, d) ==
  LET modePos == indexOf(packet, KEY_MODE)
  IN IF modePos = -1 THEN d
     ELSE LET modeEnd == valueEnd(packet, modePos)
              newMode == toInt(substring(packet, modePos + 5, modeEnd))
          IN IF newMode >= 0 /\ newMode < 3
             THEN sendAck(packet, [d EXCEPT !.currentMode = newMode])
             ELSE d

execSetMode(packet, d) ==
  LET modePos == indexOf(packet, KEY_MODE)
  IN IF modePos = -1 THEN d
     ELSE LET modeEnd == valueEnd(packet, modePos)
              newMode == toInt(substring(packet, modePos + 5, modeEnd))
          IN IF newMode >= 0 /\ newMode <= 3
             THEN sendAck(packet, [d EXCEPT !.currentMode = newMode])
             ELSE d

\* setTargets taking the angle as a move relative to the current target
RECURSIVE setTargets_Relative(_, _, _)
setTargets_Relative(packet, tgt, i) ==
  IF i > NUM_JOINTS THEN tgt
  ELSE LET keyName == KEY_JOINT \o StringOfInt(i) \o KEY_ANG
           pos == indexOf(packet, keyName)
       IN IF pos # -1
          THEN LET end == valueEnd(packet, pos)
                   angle == toFloat(substring(packet, pos + Len(keyName), end))
               IN setTargets_Relative(packet, [tgt EXCEPT ![i] = @ + angle],
                                      i + 1)
          ELSE setTargets_Relative(packet, tgt, i + 1)

\* the body of the for loop of JOINTS_TO_ANGLE, for joints i..NUM_JOINTS
RECURSIVE setTargets(_, _, _)
setTargets(packet, tgt, i) ==
  IF i > NUM_JOINTS THEN tgt
  ELSE LET keyName == KEY_JOINT \o StringOfInt(i) \o KEY_ANG
           pos == indexOf(packet, keyName)
       IN IF pos # -1
          THEN LET end == valueEnd(packet, pos)
                   angle == toFloat(substring(packet, pos + Len(keyName), end))
               IN setTargets(packet, [tgt EXCEPT ![i] = angle], i + 1)
          ELSE setTargets(packet, tgt, i + 1)

execJointsToAngle(packet, d) ==
  sendAck(packet,
          [d EXCEPT !.jointTargetAngles = setTargets(packet, @, 1)])

\* setEnables with the test of the value inverted
RECURSIVE setEnables_Inverted(_, _, _)
setEnables_Inverted(packet, en, i) ==
  IF i > NUM_JOINTS THEN en
  ELSE LET keyName == KEY_JOINT \o StringOfInt(i) \o KEY_EN
           pos == indexOf(packet, keyName)
       IN IF pos # -1
          THEN LET end == valueEnd(packet, pos)
                   enabled == toInt(substring(packet, pos + Len(keyName), end))
               IN setEnables_Inverted(packet, [en EXCEPT ![i] = (enabled = 0)],
                                      i + 1)
          ELSE setEnables_Inverted(packet, en, i + 1)

\* the body of the for loop of JOINT_EN, for joints i..NUM_JOINTS
RECURSIVE setEnables(_, _, _)
setEnables(packet, en, i) ==
  IF i > NUM_JOINTS THEN en
  ELSE LET keyName == KEY_JOINT \o StringOfInt(i) \o KEY_EN
           pos == indexOf(packet, keyName)
       IN IF pos # -1
          THEN LET end == valueEnd(packet, pos)
                   enabled == toInt(substring(packet, pos + Len(keyName), end))
               IN setEnables(packet, [en EXCEPT ![i] = (enabled = 1)], i + 1)
          ELSE setEnables(packet, en, i + 1)

\* execJointEn that starts from all joints disabled: joints the packet
\* does not name lose their flag
execJointEn_ClearsOthers(packet, d) ==
  sendAck(packet,
          [d EXCEPT !.jointEnabled =
             setEnables(packet, [i \in Joints |-> FALSE], 1)])

execJointEn(packet, d) ==
  sendAck(packet, [d EXCEPT !.jointEnabled = setEnables(packet, @, 1)])

\* execEstop gated on the mode: outside MOVE the line is ignored
execEstop_OnlyInMove(packet, d) ==
  IF d.currentMode = MODE_MOVE
  THEN sendAck(packet, [d EXCEPT !.jointEnabled = [i \in Joints |-> FALSE]])
  ELSE d

\* execEstop with the loop one short: the last joint keeps its flag
execEstop_SkipsLast(packet, d) ==
  sendAck(packet,
          [d EXCEPT !.jointEnabled =
             [i \in Joints |-> IF i < NUM_JOINTS THEN FALSE ELSE @[i]]])

execEstop(packet, d) ==
  sendAck(packet, [d EXCEPT !.jointEnabled = [i \in Joints |-> FALSE]])

execCalibrateJoint(packet, d) == sendAck(packet, d)

\* parseAndExecutePacket with every SET_MODE disabling the joints first
parseAndExecutePacket_ModeResets(packet, d) ==
  IF ~startsWith(packet, TYPE_CMD) THEN d
  ELSE LET cmdStart == indexOf(packet, KEY_CMD)
       IN IF cmdStart = -1 THEN d
          ELSE LET cmdEnd == valueEnd(packet, cmdStart)
                   cmd == substring(packet, cmdStart + 4, cmdEnd)
               IN IF cmd = CMD_SET_MODE
                    THEN execSetMode(packet,
                           [d EXCEPT !.jointEnabled = [i \in Joints |-> FALSE]])
                  ELSE IF cmd = CMD_JOINTS_TO_ANGLE
                         THEN execJointsToAngle(packet, d)
                  ELSE IF cmd = CMD_JOINT_EN THEN execJointEn(packet, d)
                  ELSE IF cmd = CMD_ESTOP THEN execEstop(packet, d)
                  ELSE IF cmd = CMD_CALIBRATE_JOINT
                         THEN execCalibrateJoint(packet, d)
                  ELSE d

parseAndExecutePacket(packet, d) ==
  IF ~startsWith(packet, TYPE_CMD) THEN d
  ELSE LET cmdStart == indexOf(packet, KEY_CMD)
       IN IF cmdStart = -1 THEN d
          ELSE LET cmdEnd == valueEnd(packet, cmdStart)
                   cmd == substring(packet, cmdStart + 4, cmdEnd)
               IN IF cmd = CMD_SET_MODE THEN execSetMode(packet, d)
                  ELSE IF cmd = CMD_JOINTS_TO_ANGLE
                         THEN execJointsToAngle(packet, d)
                  ELSE IF cmd = CMD_JOINT_EN THEN execJointEn(packet, d)
                  ELSE IF cmd = CMD_ESTOP THEN execEstop(packet, d)
                  ELSE IF cmd = CMD_CALIBRATE_JOINT
                         THEN execCalibrateJoint(packet, d)
                  ELSE d

\* ------------------------------------------------------------------------
\* listenPackets
\* ------------------------------------------------------------------------
\* listenByte without the test for '\r': the carriage return joins the line
listenByte_KeepsCR(c, s) ==
  IF c = LF
  THEN LET t == IF Len(s.inLine) > 0
                THEN parseAndExecutePacket(s.inLine, s)
                ELSE s
       IN [t EXCEPT !.inLine = <<>>]
  ELSE LET grown == Append(s.inLine, c)
       IN [s EXCEPT !.inLine =
             IF Len(grown) > PACKET_MAX_LEN THEN <<>> ELSE grown]

\* one iteration of the while loop of listenPackets on the byte c; s is the
\* handler state of Dev extended with the line buffer
listenByte(c, s) ==
  IF c = CR THEN s
  ELSE IF c = LF
       THEN LET t == IF Len(s.inLine) > 0
                     THEN parseAndExecutePacket(s.inLine, s)
                     ELSE s
            IN [t EXCEPT !.inLine = <<>>]
       ELSE LET grown == Append(s.inLine, c)
            IN [s EXCEPT !.inLine =
                  IF Len(grown) > PACKET_MAX_LEN THEN <<>> ELSE grown]

\* the while loop of listenPackets over the bytes lo..hi of bytes
RECURSIVE listenRange(_, _, _, _)
listenRange(bytes, lo, hi, s) ==
  IF lo > hi THEN s
  ELSE IF lo = hi THEN listenByte(bytes[lo], s)
  ELSE LET mid == (lo + hi) \div 2
           t == listenRange(bytes, lo, mid, s)
       IN \* the first half is evaluated before the second is begun
          IF Len(t.inLine) >= 0 THEN listenRange(bytes, mid + 1, hi, t)
          ELSE t

\* listenPackets that holds the ACKs back until every buffered line has been
\* executed: each sendAck finds the state the last line left
listenBytes_AcksAtEnd(bytes, s) ==
  LET t == listenRange(bytes, 1, Len(bytes), s)
  IN [t EXCEPT !.seen =
        [k \in 1..Len(@) |-> [currentMode |-> t.currentMode,
                              jointEnabled |-> t.jointEnabled,
                              jointTargetAngles |-> t.jointTargetAngles]]]

\* listenPackets over the bytes that Serial holds
listenBytes(bytes, s) == listenRange(bytes, 1, Len(bytes), s)

\* the handler state of the device as it stands
Here ==
  [currentMode |-> currentMode, jointEnabled |-> jointEnabled,
   jointTargetAngles |-> jointTargetAngles, inLine |-> inLine,
   acks |-> <<>>, seen |-> <<>>]

Snapshot ==
  [currentMode |-> currentMode, jointEnabled |-> jointEnabled,
   jointTargetAngles |-> jointTargetAngles]

\* ------------------------------------------------------------------------
\* Lines the host writes
\* ------------------------------------------------------------------------
KEY_STOP_ALL == <<"S", "T", "O", "P", "=", "A", "L", "L">>
KEY_ANGLE == <<"_", "A", "N", "G", "L", "E", "=">>
KEY_NOTE == <<"N", "O", "T", "E", "=">>

CmdHead(cmd) == TYPE_CMD \o <<Comma>> \o KEY_CMD \o cmd

\* TYPE=CMD,CMD=SET_MODE,MODE=<v>
LineSetMode(v) == CmdHead(CMD_SET_MODE) \o <<Comma>> \o KEY_MODE \o v

\* TYPE=CMD,CMD=ESTOP,STOP=ALL
LineEstop == CmdHead(CMD_ESTOP) \o <<Comma>> \o KEY_STOP_ALL

\* TYPE=CMD,CMD=ESTOP,STOP=ALL,NOTE=TYPE=CMD
LineEstopNote == LineEstop \o <<Comma>> \o KEY_NOTE \o TYPE_CMD

\* TYPE=CMD,CMD=JOINT_EN,JOINT_<i>_EN=<v>
LineJointEn(i, v) ==
  CmdHead(CMD_JOINT_EN) \o <<Comma>> \o KEY_JOINT \o StringOfInt(i)
    \o KEY_EN \o v

\* TYPE=CMD,CMD=JOINT_EN,JOINT_1_EN=1,JOINT_2_EN=1
LineJointEn12 ==
  LineJointEn(1, <<"1">>) \o <<Comma>> \o KEY_JOINT \o StringOfInt(2)
    \o KEY_EN \o <<"1">>

\* ,JOINT_<i>_ANGLE=<v>
AngleField(i, v) == <<Comma>> \o KEY_JOINT \o StringOfInt(i) \o KEY_ANGLE \o v

\* TYPE=CMD,CMD=JOINTS_TO_ANGLE,JOINT_1_ANGLE=45.5,...,JOINT_6_ANGLE=23.4
LineJointsToAngle ==
  CmdHead(CMD_JOINTS_TO_ANGLE)
    \o AngleField(1, <<"4", "5", ".", "5">>)
    \o AngleField(2, <<"6", "7", ".", "2">>)
    \o AngleField(3, <<"1", "2", ".", "1">>)
    \o AngleField(4, <<"1", "8", "0", ".", "0">>)
    \o AngleField(5, <<"9", "0", ".", "5">>)
    \o AngleField(6, <<"2", "3", ".", "4">>)

\* TYPE=CMD,CMD=JOINTS_TO_ANGLE,JOINT_3_ANGLE=12.1
LineJointsToAngle3 ==
  CmdHead(CMD_JOINTS_TO_ANGLE) \o AngleField(3, <<"1", "2", ".", "1">>)

\* TYPE=CMD,CMD=JOINTS_TO_ANGLE,JOINT_1_ANG=45.5
LineJointsToAng ==
  CmdHead(CMD_JOINTS_TO_ANGLE) \o <<Comma>> \o KEY_JOINT \o StringOfInt(1)
    \o KEY_ANG \o <<"4", "5", ".", "5">>

\* TYPE=CMD,CMD=CALIBRATE_JOINT,JOINT_ID=3
LineCalibrateJoint ==
  CmdHead(CMD_CALIBRATE_JOINT) \o <<Comma>> \o KEY_JOINT_ID \o <<"3">>

\* TYPE=CMD,CMD=JOINTS_TO_ANGLE,JOINT_1_ANG=200.5
LineJointsToAngBig ==
  CmdHead(CMD_JOINTS_TO_ANGLE) \o <<Comma>> \o KEY_JOINT \o StringOfInt(1)
    \o KEY_ANG \o <<"2", "0", "0", ".", "5">>

\* TYPE=CMD,CMD=ESTOP
LineEstopBare == CmdHead(CMD_ESTOP)

\* TYPE=CMD,CMD=CALIBRATE_JOINT
LineCalibrateBare == CmdHead(CMD_CALIBRATE_JOINT)

\* TYPE=CMD,CMD=CALIBRATE_JOINT,JOINT_ID=9
LineCalibrate9 ==
  CmdHead(CMD_CALIBRATE_JOINT) \o <<Comma>> \o KEY_JOINT_ID \o <<"9">>

\* TYPE=CMD,CMD=JOINT_EN
LineJointEnBare == CmdHead(CMD_JOINT_EN)

\* TYPE=CMD,CMD=SET_MODE
LineSetModeBare == CmdHead(CMD_SET_MODE)

\* TYPE=ACK,CMD=SET_MODE,MODE=2
LineAck == TYPE_ACK \o SubSeq(LineSetMode(<<"2">>), 9, 28)

\* TYPE=CMD,CMD=HOME
LineUnknown == CmdHead(<<"H", "O", "M", "E">>)

\* TYPE=CMDX,CMD=ESTOP,STOP=ALL
LineCmdX ==
  TYPE_CMD \o <<"X">> \o SubSeq(LineEstop, Len(TYPE_CMD) + 1, Len(LineEstop))

\* TYPE=DATA,CMD=JOINT_ANGLES,BUTTON=0
LineData == TELEM_HEAD \o TELEM_BUTTON \o <<"0">>

\* CMD=ESTOP,STOP=ALL
LineNoType == SubSeq(LineEstop, Len(TYPE_CMD) + 2, Len(LineEstop))

\* TYPE=CMD,MODE=2
LineNoCmd == TYPE_CMD \o <<Comma>> \o KEY_MODE \o <<"2">>

\* a line of n characters that is no packet
Filler(n) == [i \in 1..n |-> "x"]

\* PACKET_MAX_LEN + 1 characters of filler and then the text of an ESTOP
LineOversize == Filler(PACKET_MAX_LEN + 1) \o LineEstop

\* a line of exactly PACKET_MAX_LEN characters that is an ESTOP packet
LineFull ==
  LineEstop \o <<Comma>> \o KEY_NOTE
    \o Filler(PACKET_MAX_LEN - Len(LineEstop) - 1 - Len(KEY_NOTE))

ModeValues ==
  {<<"0">>, <<"1">>, <<"2">>, <<"3">>,          \* the four modes
   <<>>, <<"x">>,                                \* empty, not an integer
   <<"5">>, <<"-", "1">>}                        \* outside 0..3

SetModeLines == {LineSetMode(v) : v \in ModeValues}

JointEnLines ==
  {LineJointEn(i, v) : i \in Joints, v \in {<<"0">>, <<"1">>}}
    \cup {LineJointEn12}

JointsToAngleLines ==
  {LineJointsToAngle, LineJointsToAngle3, LineJointsToAng, LineJointsToAngBig}

\* registered commands that lack a required field or carry a value outside
\* its domain
InvalidLines ==
  {LineEstopBare, LineCalibrateBare, LineCalibrate9, LineJointEnBare,
   LineJointEn(1, <<"2">>), LineJointsToAngle3, LineSetModeBare,
   LineSetMode(<<"5">>), LineSetMode(<<"-", "1">>)}

\* lines that are no command of the protocol
NoCommandLines ==
  {LineAck, LineData, LineCmdX, LineNoType, LineNoCmd, LineUnknown}

CmdLines ==
  SetModeLines \cup JointEnLines \cup JointsToAngleLines
    \cup {LineEstop, LineEstopNote, LineCalibrateJoint}
    \cup InvalidLines
    \cup NoCommandLines

\* ------------------------------------------------------------------------
\* Host: packet codec and ACK verifier
\* ------------------------------------------------------------------------
KEY_TYPE == <<"T", "Y", "P", "E">>
VALUE_CMD == <<"C", "M", "D">>
VALUE_ACK == <<"A", "C", "K">>
VALUE_DATA == <<"D", "A", "T", "A">>
Equals == "="

Max(S) == CHOOSE x \in S : \A y \in S : x >= y

\* text without its trailing line terminators
RECURSIVE stripTerminators(_)
stripTerminators(text) ==
  IF Len(text) > 0 /\ text[Len(text)] \in {LF, CR}
  THEN stripTerminators(SubSeq(text, 1, Len(text) - 1))
  ELSE text

\* the segments of s between the occurrences of ch
RECURSIVE split(_, _)
split(s, ch) ==
  LET i == indexOfChar(s, ch, 0)
  IN IF i = -1 THEN <<s>>
     ELSE <<SubSeq(s, 1, i)>> \o split(SubSeq(s, i + 2, Len(s)), ch)

\* a segment split on its first "="
field(seg) ==
  LET e == indexOfChar(seg, Equals, 0)
  IN [key |-> SubSeq(seg, 1, e), value |-> SubSeq(seg, e + 2, Len(seg))]

\* decode: the fields of a line in the order met, or a MalformedPacket
decode(text) ==
  LET t == stripTerminators(text)
      segs == split(t, Comma)
      wellFormed ==
        /\ Len(t) <= PACKET_MAX_LEN
        /\ \A k \in 1..Len(segs) : indexOfChar(segs[k], Equals, 0) # -1
        /\ field(segs[1]).key = KEY_TYPE
  IN IF wellFormed
     THEN [ok |-> TRUE, fields |-> [k \in 1..Len(segs) |-> field(segs[k])]]
     ELSE [ok |-> FALSE, fields |-> <<>>]

\* the keys of a decoded record
keysOf(fields) == {fields[k].key : k \in 1..Len(fields)}

\* the value a decoded record maps key to; key is one of its keys
valueOf(fields, key) ==
  fields[Max({k \in 1..Len(fields) : fields[k].key = key})].value

\* verify that looks only for the keys of the sent line in the received one
verify_SentKeysOnly(sentText, received) ==
  LET s == decode(sentText)
      r == decode(received)
  IN IF ~s.ok \/ ~r.ok THEN "MalformedPacket"
     ELSE IF valueOf(r.fields, KEY_TYPE) # VALUE_ACK
               \/ valueOf(s.fields, KEY_TYPE) # VALUE_CMD
          THEN "AckTypeError"
     ELSE IF /\ keysOf(s.fields) \subseteq keysOf(r.fields)
             /\ \A key \in keysOf(s.fields) \ {KEY_TYPE} :
                  valueOf(s.fields, key) = valueOf(r.fields, key)
          THEN "matched"
          ELSE "AckMismatch"

\* verify: does the received line acknowledge the sent one
verify(sentText, received) ==
  LET s == decode(sentText)
      r == decode(received)
  IN IF ~s.ok \/ ~r.ok THEN "MalformedPacket"
     ELSE IF valueOf(r.fields, KEY_TYPE) # VALUE_ACK
               \/ valueOf(s.fields, KEY_TYPE) # VALUE_CMD
          THEN "AckTypeError"
     ELSE IF /\ keysOf(s.fields) = keysOf(r.fields)
             /\ \A key \in keysOf(s.fields) \ {KEY_TYPE} :
                  valueOf(s.fields, key) = valueOf(r.fields, key)
          THEN "matched"
          ELSE "AckMismatch"

\* the mailbox when it holds nothing (current_ack is None); a value it holds
\* carries the number of the write that caused it and of its store
NoAck == [text |-> <<>>, tx |-> 0, id |-> 0]

NoVerify == [sentText |-> <<>>, received |-> <<>>, outcome |-> "none"]

\* ------------------------------------------------------------------------
\* Start of the program
\* ------------------------------------------------------------------------
\* loop() with the telemetry check ahead of listenPackets
loopSteps_TelemetryFirst == <<"telem", "listen", "tail">>

\* the steps of one pass of loop(), in the order it takes them:
\* 1) listenPackets, 2) the telemetry check, 3) mode code and delay(5)
loopSteps == <<"listen", "telem", "tail">>

\* the step that follows step p
StepAfter(p) ==
  LET k == CHOOSE j \in 1..3 : loopSteps[j] = p
  IN loopSteps[(k % 3) + 1]

NoPrev == [currentMode |-> -1, jointEnabled |-> <<>>,
           jointTargetAngles |-> <<>>]

NoTwice == [dup |-> FALSE, out |-> <<>>]

\* the state as loop() is entered for the first time after setup(), millis()
\* being t and lastTelemMs being last
InitAt(t, last) ==
  /\ currentMode = MODE_IDLE
  /\ jointTargetAngles = [i \in Joints |-> 0]
  /\ jointEnabled = <<DEFAULT_JOINT1_EN = 1, DEFAULT_JOINT2_EN = 1,
                      DEFAULT_JOINT3_EN = 1, DEFAULT_JOINT4_EN = 1,
                      DEFAULT_JOINT5_EN = 1, DEFAULT_JOINT6_EN = 1>>
  /\ inLine = <<>>
  /\ lastTelemMs = last
  /\ latchedState = 0
  /\ lastChangeMs = 0
  /\ now = t
  /\ rx = <<>>
  /\ wire = <<>>
  /\ pc = loopSteps[1]
  /\ serialOut = <<>>
  /\ prev = NoPrev
  /\ lastLine = <<>>
  /\ sent = 0
  /\ passes = 0
  /\ passStartBuf = <<>>
  /\ passRead = 0
  /\ passArrived = 0
  /\ passPending = 0
  /\ passOut = <<>>
  /\ down = <<>>
  /\ up = <<>>
  /\ mailbox = NoAck
  /\ cpc = "idle"
  /\ cmdText = <<>>
  /\ attempt = 0
  /\ polls = 0
  /\ ack = NoAck
  /\ result = "none"
  /\ writes = 0
  /\ txCount = 0
  /\ calls = 0
  /\ stores = 0
  /\ startSlot = NoAck
  /\ okAck = NoAck
  /\ noiseRead = FALSE
  /\ matchStored = FALSE
  /\ lastVerify = NoVerify
  /\ sink = <<>>
  /\ dropped = 0
  /\ twice = NoTwice
  /\ sinceTelem = -1
  /\ telemGap = -1
  /\ ackSeen = <<>>

\* power-on: setup() has waited SETUP_DELAY_MS and lastTelemMs is 0
Init == InitAt(SETUP_DELAY_MS, 0)

\* ------------------------------------------------------------------------
\* Telemetry
\* ------------------------------------------------------------------------
\* a subtraction that takes every wrapped difference for the largest one
ULongSub_NoBorrow(a, b) == IF a >= b THEN a - b ELSE ULONG_MOD - 1

\* unsigned long subtraction
ULongSub(a, b) == (a - b + ULONG_MOD) % ULONG_MOD

\* decimal text of a natural number
RECURSIVE StringOfNat(_)
StringOfNat(n) ==
  IF n < 10 THEN <<Digits[n + 1]>>
  ELSE StringOfNat(n \div 10) \o <<Digits[(n % 10) + 1]>>

\* Serial.print(float, 1) of a value held in tenths
printFloat1(t) == StringOfNat(t \div 10) \o <<".">> \o StringOfNat(t % 10)

\* raw * RAW_TO_DEG (360/4096), rounded to the tenth that print shows
rawToTenths(raw) == (raw * 3600 + 2048) \div 4096

\* readEncoders: encoderAngles[] from the raw AS5600 readings; 0.0 for a
\* joint that is not enabled
readEncoders(raw, en) ==
  [i \in 1..NUM_ENCODERS |-> IF en[i] THEN rawToTenths(raw[i]) ELSE 0]

\* readButton: the latched state and the time of its last change, given the
\* physical state of the switch
readButton(physical, latched, changed, t) ==
  IF ULongSub(t, changed) >= BUTTON_DEBOUNCE_MS /\ physical # latched
  THEN [latchedState |-> physical, lastChangeMs |-> t]
  ELSE [latchedState |-> latched, lastChangeMs |-> changed]

\* encoderFields without the test of jointEnabled: every joint is reported
RECURSIVE encoderFields_All(_, _, _)
encoderFields_All(en, angles, i) ==
  IF i > NUM_ENCODERS THEN <<>>
  ELSE TELEM_ENCODER \o StringOfInt(i) \o TELEM_ANGLE
         \o printFloat1(angles[i]) \o encoderFields_All(en, angles, i + 1)

\* the fields ,ENCODER_<i>_ANGLE=<x.x> of joints i..NUM_ENCODERS
RECURSIVE encoderFields(_, _, _)
encoderFields(en, angles, i) ==
  IF i > NUM_ENCODERS THEN <<>>
  ELSE (IF en[i]
        THEN TELEM_ENCODER \o StringOfInt(i) \o TELEM_ANGLE
               \o printFloat1(angles[i])
        ELSE <<>>) \o encoderFields(en, angles, i + 1)

\* sendTelemetry: the lines it prints
sendTelemetry(mode, en, angles, button) ==
  IF mode # MODE_CALIBRATION /\ mode # MODE_MOVE THEN <<>>
  ELSE <<TELEM_HEAD \o encoderFields(en, angles, 1) \o TELEM_BUTTON
           \o StringOfInt(button)>>

\* ------------------------------------------------------------------------
\* Bounds and inputs
\* ------------------------------------------------------------------------
\* lines the host writes in one run of the byte-level model
MaxLines == 2
\* passes of loop() in one run
MaxPasses == 3
\* a line may arrive in two pieces, the first of this many bytes
CutLen == 12

\* raw readings of the six AS5600 encoders
RawReadings == {<<0, 1024, 2048, 3072, 4095, 17>>}

\* lines of the byte-level model
WireLines ==
  {LineSetMode(<<"2">>), LineEstop, LineJointEn(1, <<"1">>)}

\* lines at and beyond the longest packet
LongLines == {LineOversize, LineFull}

\* ------------------------------------------------------------------------
\* The host and the serial link
\* ------------------------------------------------------------------------
\* the bytes of a line on the wire, in one piece or cut in two
Chunks(bytes, cut) ==
  IF cut > 0 /\ cut < Len(bytes)
  THEN <<SubSeq(bytes, 1, cut), SubSeq(bytes, cut + 1, Len(bytes))>>
  ELSE <<bytes>>

\* the host writes a line and its newline
HostSend(line, cut) ==
  /\ sent < MaxLines
  /\ wire = <<>>
  /\ wire' = Chunks(line \o <<LF>>, cut)
  /\ sent' = sent + 1
  /\ lastLine' = line
  /\ prev' = Snapshot
  /\ serialOut' = <<>>
  /\ ackSeen' = <<>>
  /\ UNCHANGED hostVars
  /\ UNCHANGED <<twice, sinceTelem, telemGap>>
  /\ UNCHANGED <<currentMode, jointTargetAngles, jointEnabled, inLine,
                 lastTelemMs, latchedState, lastChangeMs, now, rx, pc,
                 passes, passStartBuf, passRead, passArrived, passPending,
                 passOut>>

\* the next piece on the wire reaches the receive buffer of Serial
Arrive ==
  /\ wire # <<>>
  /\ rx' = rx \o Head(wire)
  /\ wire' = Tail(wire)
  /\ passArrived' = passArrived + Len(Head(wire))
  /\ UNCHANGED hostVars
  /\ UNCHANGED histVars
  /\ UNCHANGED <<currentMode, jointTargetAngles, jointEnabled, inLine,
                 lastTelemMs, latchedState, lastChangeMs, now, pc, serialOut,
                 prev, lastLine, sent, passes, passStartBuf, passRead,
                 passPending, passOut>>

\* ------------------------------------------------------------------------
\* loop()
\* ------------------------------------------------------------------------
\* the time n calls of sendAck take: delay(10) and delay(1000) each
AckDelay(n) == n * (ACK_SETTLE_MS + ACK_BLINK_MS)

\* millis() after the delays of n calls of sendAck
AfterAcks(t, n) == (t + AckDelay(n)) % ULONG_MOD

\* the milliseconds since the last telemetry packet after ms more of them
Elapse(since, ms) ==
  IF since = -1 THEN -1
  ELSE IF since + ms > TELEM_INTERVAL_MS THEN TELEM_INTERVAL_MS
  ELSE since + ms

\* listenPackets: one iteration of while (Serial.available() > 0)
ListenRead ==
  /\ pc = "listen"
  /\ rx # <<>>
  /\ LET s == listenByte(Head(rx), Here)
     IN /\ currentMode' = s.currentMode
        /\ jointEnabled' = s.jointEnabled
        /\ jointTargetAngles' = s.jointTargetAngles
        /\ inLine' = s.inLine
        /\ serialOut' = serialOut \o s.acks
        /\ passOut' = passOut \o s.acks
        /\ now' = AfterAcks(now, Len(s.acks))
        /\ sinceTelem' = Elapse(sinceTelem, AckDelay(Len(s.acks)))
        /\ ackSeen' = ackSeen \o s.seen
  /\ rx' = Tail(rx)
  /\ passRead' = passRead + 1
  /\ UNCHANGED hostVars
  /\ UNCHANGED <<twice, telemGap>>
  /\ UNCHANGED <<lastTelemMs, latchedState, lastChangeMs, wire, pc, prev,
                 lastLine, sent, passes, passStartBuf, passArrived,
                 passPending>>

\* listenPackets returns: Serial.available() is 0
ListenDone ==
  /\ pc = "listen"
  /\ rx = <<>>
  /\ pc' = StepAfter("listen")
  /\ UNCHANGED hostVars
  /\ UNCHANGED histVars
  /\ UNCHANGED <<currentMode, jointTargetAngles, jointEnabled, inLine,
                 lastTelemMs, latchedState, lastChangeMs, now, rx, wire,
                 serialOut, prev, lastLine, sent, passes, passStartBuf,
                 passRead, passArrived, passPending, passOut>>

\* telemetryDue without the check of Serial.available()
telemetryDue_IgnoresPending(t, last, pending) ==
  ULongSub(t, last) >= TELEM_INTERVAL_MS

\* should loop() send telemetry now: the interval has elapsed and no byte
\* is pending
telemetryDue(t, last, pending) ==
  ULongSub(t, last) >= TELEM_INTERVAL_MS /\ pending = 0

\* step 2 of loop() with lastTelemMs = now ahead of the test of
\* Serial.available(): a check that is skipped starts the interval anew
Telemetry_LosesSkipped(raw, physical) ==
  /\ pc = "telem"
  /\ pc' = StepAfter("telem")
  /\ passPending' = Len(rx)
  /\ IF ULongSub(now, lastTelemMs) >= TELEM_INTERVAL_MS
     THEN /\ lastTelemMs' = now
          /\ IF Len(rx) = 0
                /\ (currentMode = MODE_CALIBRATION \/ currentMode = MODE_MOVE)
             THEN LET angles == readEncoders(raw, jointEnabled)
                      b == readButton(physical, latchedState, lastChangeMs,
                                      now)
                      out == sendTelemetry(currentMode, jointEnabled, angles,
                                           b.latchedState)
                  IN /\ latchedState' = b.latchedState
                     /\ lastChangeMs' = b.lastChangeMs
                     /\ serialOut' = serialOut \o out
                     /\ passOut' = passOut \o out
                     /\ telemGap' = IF out # <<>> THEN sinceTelem
                                    ELSE telemGap
                     /\ sinceTelem' = IF out # <<>> THEN 0 ELSE sinceTelem
             ELSE UNCHANGED <<latchedState, lastChangeMs, serialOut, passOut,
                              sinceTelem, telemGap>>
     ELSE UNCHANGED <<lastTelemMs, latchedState, lastChangeMs, serialOut,
                      passOut, sinceTelem, telemGap>>
  /\ UNCHANGED hostVars
  /\ UNCHANGED <<twice, ackSeen>>
  /\ UNCHANGED <<currentMode, jointTargetAngles, jointEnabled, inLine, now,
                 rx, wire, prev, lastLine, sent, passes, passStartBuf,
                 passRead, passArrived>>

\* step 2 of loop() with neither loop() nor sendTelemetry testing the mode
Telemetry_AnyMode(raw, physical) ==
  /\ pc = "telem"
  /\ pc' = StepAfter("telem")
  /\ passPending' = Len(rx)
  /\ IF telemetryDue(now, lastTelemMs, Len(rx))
     THEN /\ lastTelemMs' = now
          /\ LET angles == readEncoders(raw, jointEnabled)
                 b == readButton(physical, latchedState, lastChangeMs, now)
                 out == <<TELEM_HEAD \o encoderFields(jointEnabled, angles, 1)
                            \o TELEM_BUTTON \o StringOfInt(b.latchedState)>>
             IN /\ latchedState' = b.latchedState
                /\ lastChangeMs' = b.lastChangeMs
                /\ serialOut' = serialOut \o out
                /\ passOut' = passOut \o out
                /\ telemGap' = sinceTelem
                /\ sinceTelem' = 0
     ELSE UNCHANGED <<lastTelemMs, latchedState, lastChangeMs, serialOut,
                      passOut, sinceTelem, telemGap>>
  /\ UNCHANGED hostVars
  /\ UNCHANGED <<twice, ackSeen>>
  /\ UNCHANGED <<currentMode, jointTargetAngles, jointEnabled, inLine, now,
                 rx, wire, prev, lastLine, sent, passes, passStartBuf,
                 passRead, passArrived>>

\* step 2 of loop(): the telemetry check, readEncoders and sendTelemetry
Telemetry(raw, physical) ==
  /\ pc = "telem"
  /\ pc' = StepAfter("telem")
  /\ passPending' = Len(rx)
  /\ IF telemetryDue(now, lastTelemMs, Len(rx))
     THEN /\ lastTelemMs' = now
          /\ IF currentMode = MODE_CALIBRATION \/ currentMode = MODE_MOVE
             THEN LET angles == readEncoders(raw, jointEnabled)
                      b == readButton(physical, latchedState, lastChangeMs,
                                      now)
                      out == sendTelemetry(currentMode, jointEnabled, angles,
                                           b.latchedState)
                  IN /\ latchedState' = b.latchedState
                     /\ lastChangeMs' = b.lastChangeMs
                     /\ serialOut' = serialOut \o out
                     /\ passOut' = passOut \o out
                     /\ telemGap' = IF out # <<>> THEN sinceTelem
                                    ELSE telemGap
                     /\ sinceTelem' = IF out # <<>> THEN 0 ELSE sinceTelem
             ELSE UNCHANGED <<latchedState, lastChangeMs, serialOut, passOut,
                              sinceTelem, telemGap>>
     ELSE UNCHANGED <<lastTelemMs, latchedState, lastChangeMs, serialOut,
                      passOut, sinceTelem, telemGap>>
  /\ UNCHANGED hostVars
  /\ UNCHANGED <<twice, ackSeen>>
  /\ UNCHANGED <<currentMode, jointTargetAngles, jointEnabled, inLine, now,
                 rx, wire, prev, lastLine, sent, passes, passStartBuf,
                 passRead, passArrived>>

\* step 3 of loop(): the mode-specific code, which changes no state, and
\* delay(5); the next pass begins, if the run has fewer than limit passes
LoopTailWithin(limit) ==
  /\ pc = "tail"
  /\ passes < limit
  /\ pc' = StepAfter("tail")
  /\ now' = (now + LOOP_DELAY_MS) % ULONG_MOD
  /\ sinceTelem' = Elapse(sinceTelem, LOOP_DELAY_MS)
  /\ passes' = passes + 1
  /\ passStartBuf' = rx
  /\ passRead' = 0
  /\ passArrived' = 0
  /\ passPending' = 0
  /\ passOut' = <<>>
  /\ UNCHANGED hostVars
  /\ UNCHANGED <<twice, telemGap, ackSeen>>
  /\ UNCHANGED <<currentMode, jointTargetAngles, jointEnabled, inLine,
                 lastTelemMs, latchedState, lastChangeMs, rx, wire, serialOut,
                 prev, lastLine, sent>>

LoopTail == LoopTailWithin(MaxPasses)

Next ==
  \/ \E line \in WireLines, cut \in {0, CutLen} : HostSend(line, cut)
  \/ Arrive
  \/ ListenRead
  \/ ListenDone
  \/ \E raw \in RawReadings, physical \in {0, 1} : Telemetry(raw, physical)
  \/ LoopTail

Spec == Init /\ [][Next]_vars

\* the same device when the host writes the long lines
NextLong ==
  \/ \E line \in LongLines, cut \in {0, CutLen} : HostSend(line, cut)
  \/ Arrive
  \/ ListenRead
  \/ ListenDone
  \/ \E raw \in RawReadings, physical \in {0, 1} : Telemetry(raw, physical)
  \/ LoopTail

SpecLong == Init /\ [][NextLong]_vars

\* ------------------------------------------------------------------------
\* The device over several telemetry intervals
\* ------------------------------------------------------------------------
\* passes of loop() in one run
MaxTelemPasses == 4

\* lines the host writes in this run
TelemLines ==
  {LineSetMode(StringOfInt(m)) : m \in 0..3}
    \cup {LineJointEn(1, <<"1">>), LineEstop}

\* millis() as loop() is entered: right after setup(), or one sendAck and
\* two passes before the unsigned value wraps around
ClockStarts == {SETUP_DELAY_MS, ULONG_MOD - AckDelay(1) - 2 * LOOP_DELAY_MS}

\* the late start: the device has idled, a telemetry check is due
InitTelem ==
  \E t \in ClockStarts :
    InitAt(t, IF t = SETUP_DELAY_MS THEN 0 ELSE t - TELEM_INTERVAL_MS)

\* listenPackets: the whole while loop over the bytes Serial holds, as step
\* 1 of a pass
ListenAll ==
  /\ pc = "listen"
  /\ \E s \in {listenBytes(rx, Here)} :
        /\ currentMode' = s.currentMode
        /\ jointEnabled' = s.jointEnabled
        /\ jointTargetAngles' = s.jointTargetAngles
        /\ inLine' = s.inLine
        /\ serialOut' = serialOut \o s.acks
        /\ passOut' = passOut \o s.acks
        /\ now' = AfterAcks(now, Len(s.acks))
        /\ sinceTelem' = Elapse(sinceTelem, AckDelay(Len(s.acks)))
        /\ ackSeen' = ackSeen \o s.seen
  /\ rx' = <<>>
  /\ passRead' = passRead + Len(rx)
  /\ pc' = StepAfter("listen")
  /\ UNCHANGED hostVars
  /\ UNCHANGED <<twice, telemGap>>
  /\ UNCHANGED <<lastTelemMs, latchedState, lastChangeMs, wire, prev,
                 lastLine, sent, passes, passStartBuf, passArrived,
                 passPending>>

NextTelem ==
  \/ \E line \in TelemLines : HostSend(line, 0)
  \/ Arrive
  \/ ListenAll
  \/ \E raw \in RawReadings, physical \in {0, 1} : Telemetry(raw, physical)
  \/ LoopTailWithin(MaxTelemPasses)

SpecTelem == InitTelem /\ [][NextTelem]_vars

\* ------------------------------------------------------------------------
\* The device handed two lines in one write
\* ------------------------------------------------------------------------
\* writes of two lines in one run
MaxBatches == 2

\* pairs of lines whose effect depends on the order of the two
OrderPairs ==
  {<<LineSetMode(<<"1">>), LineSetMode(<<"2">>)>>,
   <<LineSetMode(<<"2">>), LineSetMode(<<"0">>)>>,
   <<LineJointEn(1, <<"1">>), LineEstop>>,
   <<LineEstop, LineJointEn(1, <<"1">>)>>,
   <<LineJointEn(1, <<"1">>), LineJointEn(1, <<"0">>)>>,
   <<LineSetMode(<<"2">>), LineJointEn12>>}

\* the host writes two lines, each with its newline, in one piece, once the
\* device has read what was written before
SendPair(l1, l2) ==
  /\ sent < MaxBatches
  /\ rx = <<>>
  /\ HostSend(l1 \o <<LF>> \o l2, 0)

NextOrder ==
  \/ \E p \in OrderPairs : SendPair(p[1], p[2])
  \/ Arrive
  \/ ListenAll
  \/ \E raw \in RawReadings, physical \in {0, 1} : Telemetry(raw, physical)
  \/ LoopTailWithin(MaxTelemPasses)

SpecOrder == Init /\ [][NextOrder]_vars

\* ------------------------------------------------------------------------
\* loop() called again and again
\* ------------------------------------------------------------------------
\* passes of loop() in one run
MaxLivePasses == 4

\* lines the host writes in this run
LiveLines == {LineSetMode(<<"2">>), LineEstop}

\* step 2 of loop(), whatever the encoders and the switch read
TelemetryStep ==
  \E raw \in RawReadings, physical \in {0, 1} : Telemetry(raw, physical)

NextLive ==
  \/ \E line \in LiveLines, cut \in {0, CutLen} : HostSend(line, cut)
  \/ Arrive
  \/ ListenAll
  \/ TelemetryStep
  \/ LoopTailWithin(MaxLivePasses)

\* listenPackets returns: it reads the bytes Serial holds and waits for
\* none. This is weak fairness of ListenAll, which is enabled exactly when
\* pc = "listen" and is the only step that leaves it.
ListenFair == []<>(pc # "listen")

\* the runtime calls loop() again whenever it returns, and no step of loop()
\* waits for anything: each step that can be taken is taken
SpecLive ==
  /\ Init
  /\ [][NextLive]_vars
  /\ ListenFair
  /\ WF_vars(TelemetryStep)
  /\ WF_vars(LoopTailWithin(MaxLivePasses))

\* ------------------------------------------------------------------------
\* A line in pieces, with CR LF, after empty lines
\* ------------------------------------------------------------------------
\* lines the host writes in one run
MaxFramed == 2
\* passes of loop() in one run
MaxFramedPasses == 4

FramedLines == {LineSetMode(<<"2">>), LineJointEn(1, <<"1">>), LineEstop}

\* what precedes the line, what ends it, and where the bytes are cut: CR LF
\* as the terminator, empty lines ahead, three pieces of a line, and the
\* terminator CR LF arriving byte by byte after empty lines
Framings ==
  {[lead |-> <<>>, term |-> <<CR, LF>>, cut |-> 0],
   [lead |-> <<CR, LF, LF>>, term |-> <<LF>>, cut |-> 0],
   [lead |-> <<>>, term |-> <<LF>>, cut |-> CutLen],
   [lead |-> <<LF>>, term |-> <<CR, LF>>, cut |-> 1]}

\* the bytes in one piece, or cut into three after cut and 2 * cut bytes
Pieces(bytes, cut) ==
  IF cut > 0 /\ 2 * cut < Len(bytes)
  THEN <<SubSeq(bytes, 1, cut), SubSeq(bytes, cut + 1, 2 * cut),
         SubSeq(bytes, 2 * cut + 1, Len(bytes))>>
  ELSE <<bytes>>

\* the host writes a line in the framing f, once the device has read what
\* was written before
SendFramed(line, f) ==
  /\ sent < MaxFramed
  /\ rx = <<>>
  /\ wire = <<>>
  /\ wire' = Pieces(f.lead \o line \o f.term, f.cut)
  /\ sent' = sent + 1
  /\ lastLine' = line
  /\ prev' = Snapshot
  /\ serialOut' = <<>>
  /\ ackSeen' = <<>>
  /\ UNCHANGED hostVars
  /\ UNCHANGED <<twice, sinceTelem, telemGap>>
  /\ UNCHANGED <<currentMode, jointTargetAngles, jointEnabled, inLine,
                 lastTelemMs, latchedState, lastChangeMs, now, rx, pc,
                 passes, passStartBuf, passRead, passArrived, passPending,
                 passOut>>

NextFramed ==
  \/ \E line \in FramedLines, f \in Framings : SendFramed(line, f)
  \/ Arrive
  \/ ListenAll
  \/ \E raw \in RawReadings, physical \in {0, 1} : Telemetry(raw, physical)
  \/ LoopTailWithin(MaxFramedPasses)

SpecFramed == Init /\ [][NextFramed]_vars

\* ------------------------------------------------------------------------
\* The device handed one complete line at a time
\* ------------------------------------------------------------------------
\* the host writes a line and its newline, and Serial holds all of it
Deliver(line) ==
  /\ rx = <<>>
  /\ rx' = line \o <<LF>>
  /\ lastLine' = line
  /\ prev' = Snapshot
  /\ serialOut' = <<>>
  /\ twice' = IF prev # NoPrev /\ line = lastLine
               THEN [dup |-> TRUE, out |-> serialOut]
               ELSE NoTwice
  /\ ackSeen' = <<>>
  /\ UNCHANGED <<sinceTelem, telemGap>>
  /\ UNCHANGED hostVars
  /\ UNCHANGED <<currentMode, jointTargetAngles, jointEnabled, inLine,
                 lastTelemMs, latchedState, lastChangeMs, now, wire, pc, sent,
                 passes, passStartBuf, passRead, passArrived, passPending,
                 passOut>>

\* listenPackets: the whole while loop over the bytes Serial holds
ListenPackets ==
  /\ rx # <<>>
  /\ \E s \in {listenBytes(rx, Here)} :
        /\ currentMode' = s.currentMode
        /\ jointEnabled' = s.jointEnabled
        /\ jointTargetAngles' = s.jointTargetAngles
        /\ inLine' = s.inLine
        /\ serialOut' = serialOut \o s.acks
        /\ ackSeen' = ackSeen \o s.seen
  /\ rx' = <<>>
  /\ UNCHANGED hostVars
  /\ UNCHANGED <<twice, sinceTelem, telemGap>>
  /\ UNCHANGED <<lastTelemMs, latchedState, lastChangeMs, now, wire, pc, prev,
                 lastLine, sent, passes, passStartBuf, passRead, passArrived,
                 passPending, passOut>>

NextCmd ==
  \/ \E line \in CmdLines : Deliver(line)
  \/ ListenPackets

SpecCmd == Init /\ [][NextCmd]_vars

\* ------------------------------------------------------------------------
\* The host: receiver loop and command/wait coordinator
\* ------------------------------------------------------------------------
\* calls of send_and_wait in one run
MaxCalls == 2
\* max_retries, the attempts send_and_wait is called with
MaxRetries == 2
\* polls of the mailbox that fit into one timeout
MaxPolls == 2

\* command texts the calls carry
HostLines == {LineJointEn(1, <<"1">>), LineJointEn12}

\* the variables of loop() that the host model leaves alone
loopVars == <<lastTelemMs, latchedState, lastChangeMs, now, rx, wire, pc,
              serialOut, prev, lastLine, sent, passes, passStartBuf,
              passRead, passArrived, passPending, passOut, twice,
              sinceTelem, telemGap, ackSeen>>

deviceVars == <<currentMode, jointTargetAngles, jointEnabled, inLine>>

\* send_and_wait(command_text, timeout, max_retries) is called
Call(text) ==
  /\ cpc = "idle"
  /\ calls < MaxCalls
  /\ calls' = calls + 1
  /\ cmdText' = text
  /\ attempt' = 1
  /\ writes' = 0
  /\ result' = "none"
  /\ cpc' = "clear"
  /\ polls' = 0
  /\ ack' = NoAck
  /\ startSlot' = NoAck
  /\ okAck' = NoAck
  /\ noiseRead' = FALSE
  /\ matchStored' = FALSE
  /\ lastVerify' = NoVerify
  /\ UNCHANGED <<down, up, mailbox, txCount, stores>>
  /\ UNCHANGED deviceVars
  /\ UNCHANGED loopVars
  /\ UNCHANGED recvVars

\* ClearStale that leaves the mailbox as it finds it
ClearStale_KeepsSlot ==
  /\ cpc = "clear"
  /\ startSlot' = mailbox
  /\ polls' = 0
  /\ noiseRead' = FALSE
  /\ matchStored' = FALSE
  /\ cpc' = "write"
  /\ UNCHANGED <<down, up, mailbox, cmdText, attempt, ack, result, writes,
                 txCount, calls, stores, okAck, lastVerify>>
  /\ UNCHANGED deviceVars
  /\ UNCHANGED loopVars
  /\ UNCHANGED recvVars

\* an attempt begins: clear any stale mailbox content
ClearStale ==
  /\ cpc = "clear"
  /\ startSlot' = mailbox
  /\ mailbox' = NoAck
  /\ polls' = 0
  /\ noiseRead' = FALSE
  /\ matchStored' = FALSE
  /\ cpc' = "write"
  /\ UNCHANGED <<down, up, cmdText, attempt, ack, result, writes, txCount,
                 calls, stores, okAck, lastVerify>>
  /\ UNCHANGED deviceVars
  /\ UNCHANGED loopVars
  /\ UNCHANGED recvVars

\* write command_text to the stream
WriteCommand ==
  /\ cpc = "write"
  /\ down' = Append(down, [text |-> cmdText, tx |-> txCount + 1])
  /\ txCount' = txCount + 1
  /\ writes' = writes + 1
  /\ cpc' = "poll"
  /\ UNCHANGED <<up, mailbox, cmdText, attempt, polls, ack, result, calls,
                 stores, startSlot, okAck, noiseRead, matchStored,
                 lastVerify>>
  /\ UNCHANGED deviceVars
  /\ UNCHANGED loopVars
  /\ UNCHANGED recvVars

\* one poll: copy the mailbox out under the lock
Poll ==
  /\ cpc = "poll"
  /\ polls < MaxPolls
  /\ ack' = mailbox
  /\ polls' = polls + 1
  /\ noiseRead' = (noiseRead \/ (mailbox # NoAck
                                   /\ verify(cmdText, mailbox.text) # "matched"))
  /\ cpc' = IF mailbox # NoAck THEN "verify" ELSE "poll"
  /\ UNCHANGED <<down, up, mailbox, cmdText, attempt, result, writes,
                 txCount, calls, stores, startSlot, okAck, matchStored,
                 lastVerify>>
  /\ UNCHANGED deviceVars
  /\ UNCHANGED loopVars
  /\ UNCHANGED recvVars

\* verify the value copied out, then clear the slot under the lock: return
\* success on a match, keep polling otherwise
VerifyAck ==
  /\ cpc = "verify"
  /\ LET outcome == verify(cmdText, ack.text \o <<LF>>)
     IN /\ lastVerify' = [sentText |-> cmdText, received |-> ack.text,
                          outcome |-> outcome]
        /\ IF outcome = "matched"
           THEN /\ result' = "ok"
                /\ okAck' = ack
                /\ cpc' = "idle"
           ELSE /\ cpc' = "poll"
                /\ UNCHANGED <<result, okAck>>
  /\ mailbox' = NoAck
  /\ UNCHANGED <<down, up, cmdText, attempt, polls, ack, writes, txCount,
                 calls, stores, startSlot, noiseRead, matchStored>>
  /\ UNCHANGED deviceVars
  /\ UNCHANGED loopVars
  /\ UNCHANGED recvVars

\* AttemptTimeout that allows one attempt more
AttemptTimeout_OneMore ==
  /\ cpc = "poll"
  /\ polls >= MaxPolls
  /\ IF attempt <= MaxRetries
     THEN /\ attempt' = attempt + 1
          /\ cpc' = "clear"
          /\ UNCHANGED result
     ELSE /\ result' = "AckTimeout"
          /\ cpc' = "idle"
          /\ UNCHANGED attempt
  /\ UNCHANGED <<down, up, mailbox, cmdText, polls, ack, writes, txCount,
                 calls, stores, startSlot, okAck, noiseRead, matchStored,
                 lastVerify>>
  /\ UNCHANGED deviceVars
  /\ UNCHANGED loopVars
  /\ UNCHANGED recvVars

\* the timeout has elapsed with no verified match: the attempt fails
AttemptTimeout ==
  /\ cpc = "poll"
  /\ polls >= MaxPolls
  /\ IF attempt < MaxRetries
     THEN /\ attempt' = attempt + 1
          /\ cpc' = "clear"
          /\ UNCHANGED result
     ELSE /\ result' = "AckTimeout"
          /\ cpc' = "idle"
          /\ UNCHANGED attempt
  /\ UNCHANGED <<down, up, mailbox, cmdText, polls, ack, writes, txCount,
                 calls, stores, startSlot, okAck, noiseRead, matchStored,
                 lastVerify>>
  /\ UNCHANGED deviceVars
  /\ UNCHANGED loopVars
  /\ UNCHANGED recvVars

Coordinator ==
  ClearStale \/ WriteCommand \/ Poll \/ VerifyAck \/ AttemptTimeout

\* the receiver loop storing every line that decodes, whatever its TYPE
ReceiverLine_StoresAll ==
  /\ up # <<>>
  /\ up' = Tail(up)
  /\ \E line \in {stripTerminators(Head(up).text)} :
     \E rec \in {decode(line)} :
        IF rec.ok
        THEN /\ mailbox' = [text |-> line, tx |-> Head(up).tx,
                            id |-> stores + 1]
             /\ stores' = stores + 1
             /\ matchStored' =
                  (matchStored
                     \/ (/\ cpc \in {"poll", "verify"}
                         /\ noiseRead
                         /\ polls < MaxPolls
                         /\ verify(cmdText, line) = "matched"))
             /\ UNCHANGED recvVars
        ELSE /\ UNCHANGED <<mailbox, stores, matchStored>>
             /\ dropped' = dropped + 1
             /\ sink' = sink
  /\ UNCHANGED <<down, cpc, cmdText, attempt, polls, ack, result, writes,
                 txCount, calls, startSlot, okAck, noiseRead, lastVerify>>
  /\ UNCHANGED deviceVars
  /\ UNCHANGED loopVars

\* the receiver loop takes one line off the stream: an ACK goes into the
\* mailbox, a DATA record to the telemetry sink, anything else is logged
\* and discarded
ReceiverLine ==
  /\ up # <<>>
  /\ up' = Tail(up)
  /\ \E line \in {stripTerminators(Head(up).text)} :
     \E rec \in {decode(line)} :
        IF rec.ok /\ valueOf(rec.fields, KEY_TYPE) = VALUE_ACK
        THEN /\ mailbox' = [text |-> line, tx |-> Head(up).tx,
                            id |-> stores + 1]
             /\ stores' = stores + 1
             /\ matchStored' =
                  (matchStored
                     \/ (/\ cpc \in {"poll", "verify"}
                         /\ noiseRead
                         /\ polls < MaxPolls
                         /\ verify(cmdText, line) = "matched"))
             /\ UNCHANGED recvVars
        ELSE /\ UNCHANGED <<mailbox, stores, matchStored>>
             /\ IF rec.ok /\ valueOf(rec.fields, KEY_TYPE) = VALUE_DATA
                THEN sink' = Append(sink, rec.fields) /\ dropped' = dropped
                ELSE dropped' = dropped + 1 /\ sink' = sink
  /\ UNCHANGED <<down, cpc, cmdText, attempt, polls, ack, result, writes,
                 txCount, calls, startSlot, okAck, noiseRead, lastVerify>>
  /\ UNCHANGED deviceVars
  /\ UNCHANGED loopVars

\* the device reads the next line the host wrote and executes it; println
\* ends each ACK with CR LF
DeviceLine ==
  /\ down # <<>>
  /\ down' = Tail(down)
  /\ \E s \in {listenBytes(Head(down).text \o <<LF>>, Here)} :
        /\ currentMode' = s.currentMode
        /\ jointEnabled' = s.jointEnabled
        /\ jointTargetAngles' = s.jointTargetAngles
        /\ inLine' = s.inLine
        /\ up' = up \o [k \in 1..Len(s.acks) |->
                          [text |-> s.acks[k] \o <<CR>>,
                           tx |-> Head(down).tx]]
  /\ UNCHANGED <<mailbox, cpc, cmdText, attempt, polls, ack, result, writes,
                 txCount, calls, stores, startSlot, okAck, noiseRead,
                 matchStored, lastVerify>>
  /\ UNCHANGED loopVars
  /\ UNCHANGED recvVars

NextHost ==
  \/ \E text \in HostLines : Call(text)
  \/ ClearStale
  \/ WriteCommand
  \/ Poll
  \/ VerifyAck
  \/ AttemptTimeout
  \/ ReceiverLine
  \/ DeviceLine

SpecHost == Init /\ [][NextHost]_vars

\* ------------------------------------------------------------------------
\* The receiver loop alone, on everything the device writes
\* ------------------------------------------------------------------------
\* lines the device writes in one run
MaxUp == 4

\* two lines of the banner that setup() prints
BANNER_READY == <<"=", "=", "=", " ", "S", "y", "s", "t", "e", "m", " ", "R", "e", "a", "d", "y", " ", "=", "=", "=">>
BANNER_INIT == <<"I", "n", "i", "t", "i", "a", "l", "i", "z", "i", "n", "g", ".", ".", ".">>

\* ACKs, a telemetry packet, the ACK the device writes for TYPE=CMDX, and
\* banner lines
RecvAcks == {ackText(LineJointEn(1, <<"1">>)), ackText(LineJointEn12)}
RecvData == {LineData}
RecvOther == {ackText(LineCmdX), BANNER_READY, BANNER_INIT}
RecvLines == RecvAcks \cup RecvData \cup RecvOther

\* Serial.println: the device writes a line, ended by CR LF
DeviceWrites(line) ==
  /\ Len(up) + stores + Len(sink) + dropped < MaxUp
  /\ up' = Append(up, [text |-> line \o <<CR>>, tx |-> 0])
  /\ UNCHANGED <<down, mailbox, cpc, cmdText, attempt, polls, ack, result,
                 writes, txCount, calls, stores, startSlot, okAck, noiseRead,
                 matchStored, lastVerify>>
  /\ UNCHANGED recvVars
  /\ UNCHANGED deviceVars
  /\ UNCHANGED loopVars

NextRecv ==
  \/ \E line \in RecvLines : DeviceWrites(line)
  \/ ReceiverLine

SpecRecv == Init /\ [][NextRecv]_vars

\* ------------------------------------------------------------------------
\* Properties
\* ------------------------------------------------------------------------
\* the ACK the protocol prescribes for a command line: the line with its
\* leading TYPE=CMD turned into TYPE=ACK and nothing else changed
AckOf(line) == TYPE_ACK \o SubSeq(line, Len(TYPE_CMD) + 1, Len(line))

AllDisabled == \A i \in Joints : ~jointEnabled[i]

\* the line the host wrote last has been read by listenPackets
Processed == prev # NoPrev /\ rx = <<>> /\ wire = <<>>

IsTelemetry(l) == startsWith(l, TELEM_HEAD)

\* a telemetry packet has been written in the current pass
TelemetryInPass == \E k \in 1..Len(passOut) : IsTelemetry(passOut[k])

\* C1: an ESTOP processed in MOVE mode leaves all six enable flags false,
\* whatever they were, and writes exactly one ACK, the ESTOP packet with
\* TYPE=CMD replaced by TYPE=ACK.
C1_EstopInMove ==
  (Processed /\ lastLine = LineEstop /\ prev.currentMode = MODE_MOVE)
    => /\ AllDisabled
       /\ serialOut = <<AckOf(LineEstop)>>

C1_Witness ==
  /\ Processed
  /\ lastLine = LineEstop
  /\ prev.currentMode = MODE_MOVE
  /\ prev.jointEnabled = <<TRUE, FALSE, FALSE, TRUE, FALSE, TRUE>>
  /\ AllDisabled

\* C2: after SET_MODE with MODE=0 has been executed, from any mode and any
\* enable flags, every joint's enable flag is false.
C2_IdleEntryDisablesAll ==
  (Processed /\ lastLine = LineSetMode(<<"0">>)) => AllDisabled

\* C3: at startup, before any line has been written to the device, the mode
\* is IDLE and every one of the six enable flags is false.
C3_StartupSafe ==
  prev = NoPrev => (currentMode = MODE_IDLE /\ AllDisabled)

\* C4: every ACK the device writes is the received line with only the
\* leading TYPE=CMD changed to TYPE=ACK, also when TYPE=CMD occurs again
\* later in the line.
C4_AckIsEcho ==
  Processed => \A k \in 1..Len(serialOut) : serialOut[k] = AckOf(lastLine)

\* C5: a JOINTS_TO_ANGLE line received in a mode other than MOVE changes no
\* target angle, enable flag or mode, and no ACK is written.
C5_JointsToAngleGated ==
  (Processed /\ lastLine \in JointsToAngleLines
     /\ prev.currentMode # MODE_MOVE)
    => (Snapshot = prev /\ serialOut = <<>>)

\* C6: from every mode and for every m in 0..3, TYPE=CMD,CMD=SET_MODE,MODE=m
\* sets the mode to m and writes exactly one ACK,
\* TYPE=ACK,CMD=SET_MODE,MODE=m.
C6_SetModeAlways ==
  \A m \in 0..3 :
    (Processed /\ lastLine = LineSetMode(StringOfInt(m)))
      => /\ currentMode = m
         /\ serialOut = <<AckOf(LineSetMode(StringOfInt(m)))>>

C6_Witness ==
  /\ Processed
  /\ lastLine = LineSetMode(<<"3">>)
  /\ prev.currentMode = MODE_MOVE
  /\ currentMode = MODE_RESERVED
  /\ Len(serialOut) = 1

\* C7: a SET_MODE line whose MODE value is empty or not an integer is
\* dropped: the mode is unchanged and no ACK is written.
C7_InvalidModeDropped ==
  (Processed /\ lastLine \in {LineSetMode(<<>>), LineSetMode(<<"x">>)})
    => (currentMode = prev.currentMode /\ serialOut = <<>>)

\* C8: in a pass of loop() that writes a telemetry packet, every byte Serial
\* held when the pass began has been read before, the ACKs of the pass all
\* precede the telemetry packet, and an ESTOP that was buffered when the
\* pass began has been executed and ACKed ahead of it.
C8_DrainBeforeTelemetry ==
  TelemetryInPass =>
    /\ passRead >= Len(passStartBuf)
    /\ \A k \in 1..Len(passOut) : IsTelemetry(passOut[k]) => k = Len(passOut)
    /\ passStartBuf = LineEstop \o <<LF>> =>
         /\ passOut[1] = AckOf(LineEstop)
         /\ passRead = Len(passStartBuf) =>
              passOut[Len(passOut)] \in
                {TELEM_HEAD \o TELEM_BUTTON \o <<b>> : b \in {"0", "1"}}

C8_Witness ==
  /\ TelemetryInPass
  /\ passStartBuf = LineEstop \o <<LF>>
  /\ passRead = Len(passStartBuf)

\* C9 as claimed: a pass of loop() in which input bytes were read by
\* listenPackets, or were pending at the telemetry check, writes no
\* telemetry packet.
C9_NoTelemetryAfterInput ==
  (passRead > 0 \/ passPending > 0) => ~TelemetryInPass

\* C9 as amended: a pass of loop() in which input bytes are pending in Serial
\* at the telemetry check writes no telemetry packet.
C9_NoTelemetryWhilePending ==
  passPending > 0 => ~TelemetryInPass

C9_Witness ==
  /\ pc = "tail"
  /\ passPending > 0
  /\ currentMode = MODE_MOVE
  /\ ULongSub(now, lastTelemMs) >= TELEM_INTERVAL_MS
  /\ ~TelemetryInPass

\* C10: a line of more than PACKET_MAX_LEN characters is discarded whole: it
\* changes no state and no ACK is written for any part of it.
C10_OversizeDiscarded ==
  (sent = 1 /\ Len(lastLine) > PACKET_MAX_LEN)
    => (Snapshot = prev /\ serialOut = <<>>)

\* C11: when send_and_wait succeeds in a second or third attempt, the ACK it
\* verified was written by the device in response to the write of that
\* attempt, never to the write of an earlier attempt.
C11_RetryNeedsFreshAck ==
  (result = "ok" /\ attempt >= 2) => okAck.tx = txCount

C13_NoiseThenMatchSucceeds ==
  (cpc = "poll" /\ polls >= MaxPolls) => ~(noiseRead /\ matchStored)

\* the state part of C14
C14_Counts ==
  /\ writes <= MaxRetries
  /\ attempt <= MaxRetries
  /\ cpc \in {"poll", "verify"} => writes = attempt
  /\ \A k \in 1..Len(down) :
       down[k].tx > txCount - writes => down[k].text = cmdText
  /\ result = "ok" =>
       /\ lastVerify.outcome = "matched"
       /\ lastVerify.sentText = cmdText
       /\ lastVerify.received = okAck.text
       /\ writes = attempt
  /\ result = "AckTimeout" =>
       /\ writes = MaxRetries
       /\ attempt = MaxRetries

\* steps send_and_wait can still take before it returns: an attempt is one
\* clear, one write, MaxPolls polls with a verification each, one timeout
StepsLeft ==
  LET perAttempt == 2 * MaxPolls + 3
      ahead == (MaxRetries - attempt) * perAttempt
  IN IF cpc = "clear" THEN ahead + perAttempt
     ELSE IF cpc = "write" THEN ahead + perAttempt - 1
     ELSE IF cpc = "poll" THEN ahead + 2 * (MaxPolls - polls) + 1
     ELSE IF cpc = "verify" THEN ahead + 2 * (MaxPolls - polls) + 2
     ELSE 0

\* C14: every call of send_and_wait returns, since each of its steps takes
\* it closer to returning and none waits for anything; it returns success
\* only on a value verified against command_text, leaving the slot empty as
\* it returns; it returns AckTimeout after exactly MaxRetries attempts; it
\* writes command_text once per attempt and at most MaxRetries times.
C14_SendAndWaitTerminates ==
  /\ [](C14_Counts /\ StepsLeft >= 0 /\ (cpc = "idle" <=> StepsLeft = 0))
  /\ [][/\ Coordinator => StepsLeft' < StepsLeft
        /\ (cpc # "idle" /\ cpc' = "idle" /\ result' = "ok")
             => mailbox' = NoAck]_vars

C14_Witness ==
  /\ result = "AckTimeout"
  /\ writes = MaxRetries
  /\ cpc = "idle"

\* the fields of a line as a set of pairs of key and value: the pieces
\* between its commas, each cut at its first "="
FieldsOf(text) ==
  LET cuts == {0} \cup {i \in 1..Len(text) : text[i] = Comma}
                \cup {Len(text) + 1}
      pieces == {SubSeq(text, a + 1, b - 1) :
                   <<a, b>> \in {c \in cuts \X cuts :
                                   /\ c[1] < c[2]
                                   /\ \A x \in cuts : ~(c[1] < x /\ x < c[2])}}
  IN {<<field(seg).key, field(seg).value>> : seg \in pieces}

\* the same fields apart from TYPE
SameFields(a, b) ==
  {f \in FieldsOf(a) : f[1] # KEY_TYPE} = {f \in FieldsOf(b) : f[1] # KEY_TYPE}

\* command texts and lines of the other types that verify is applied to
\* beside the ones the coordinator meets
VerifyCmds == HostLines \cup {LineJointEn(1, <<"0">>), LineSetMode(<<"2">>)}
VerifyLines == VerifyCmds \cup {AckOf(l) : l \in VerifyCmds} \cup {LineData}

\* verify on every pair of these lines: matched exactly for a TYPE=CMD line
\* and a TYPE=ACK line with the same other fields, AckTypeError when a type
\* is wrong, AckMismatch otherwise
C15_VerifyTable ==
  \A s \in VerifyLines : \A r \in VerifyLines :
    LET typesOk == /\ <<KEY_TYPE, VALUE_CMD>> \in FieldsOf(s)
                   /\ <<KEY_TYPE, VALUE_ACK>> \in FieldsOf(r)
    IN verify(s, r) = IF ~typesOk THEN "AckTypeError"
                      ELSE IF SameFields(s, r) THEN "matched"
                      ELSE "AckMismatch"

\* C15: verify reports a match exactly when the sent line has TYPE=CMD, the
\* received one TYPE=ACK and their other fields are the same keys with the
\* same values; the device's ACK of a command verifies against it, and an
\* ACK with an extra, a missing or a differing field yields AckMismatch.
C15_VerifyIsFieldEquality ==
  /\ lastVerify # NoVerify =>
       /\ lastVerify.outcome = "matched" <=>
            /\ <<KEY_TYPE, VALUE_CMD>> \in FieldsOf(lastVerify.sentText)
            /\ <<KEY_TYPE, VALUE_ACK>> \in FieldsOf(lastVerify.received)
            /\ SameFields(lastVerify.sentText, lastVerify.received)
       /\ lastVerify.received = AckOf(lastVerify.sentText) =>
            lastVerify.outcome = "matched"
       /\ lastVerify.outcome \in {"matched", "AckMismatch"}
  /\ C15_VerifyTable

C15_Witness ==
  /\ lastVerify.sentText = LineJointEn(1, <<"1">>)
  /\ lastVerify.received = AckOf(LineJointEn12)
  /\ lastVerify.outcome = "AckMismatch"

\* the target angles a JOINTS_TO_ANGLE line prescribes, in tenths
AnglesOfLine(line, before) ==
  IF line = LineJointsToAngle THEN <<455, 672, 121, 1800, 905, 234>>
  ELSE IF line = LineJointsToAngle3 THEN [before EXCEPT ![3] = 121]
  ELSE before

\* C16: a JOINTS_TO_ANGLE line executed in MOVE mode sets the target of
\* every joint i whose field JOINT_i_ANGLE it carries to that value and
\* leaves the other targets as they were.
C16_JointsToAngleAssigns ==
  (Processed /\ lastLine \in {LineJointsToAngle, LineJointsToAngle3}
     /\ prev.currentMode = MODE_MOVE)
    => jointTargetAngles = AnglesOfLine(lastLine, prev.jointTargetAngles)

\* the line is a JOINT_EN command with the field JOINT_<i>_EN=1
NamesEnable(line, i) ==
  /\ startsWith(line, CmdHead(CMD_JOINT_EN) \o <<Comma>>)
  /\ <<KEY_JOINT \o StringOfInt(i) \o <<"_", "E", "N">>, <<"1">>>>
       \in FieldsOf(line)

\* C17: a joint's enable flag goes from false to true only in a step in
\* which the device executes a JOINT_EN line that names the joint with
\* value 1.
C17_EnableOnlyByJointEn ==
  [][\A i \in Joints :
       (~jointEnabled[i] /\ jointEnabled'[i])
         => (rx = lastLine \o <<LF>> /\ rx' = <<>> /\ NamesEnable(lastLine, i))
    ]_vars

C17_Witness ==
  /\ Processed
  /\ lastLine = LineJointEn(3, <<"1">>)
  /\ prev.currentMode = MODE_MOVE
  /\ AllDisabled = FALSE
  /\ \A i \in Joints : jointEnabled[i] <=> i = 3

\* C18: an ESTOP line received outside MOVE mode, and a CALIBRATE_JOINT line
\* received outside CALIBRATION mode, changes nothing and is not ACKed.
C18_ModeGate ==
  (Processed
     /\ \/ lastLine = LineEstop /\ prev.currentMode # MODE_MOVE
        \/ lastLine = LineCalibrateJoint
             /\ prev.currentMode # MODE_CALIBRATION)
    => (Snapshot = prev /\ serialOut = <<>>)

\* the line is a command packet of the protocol
IsCommandLine(line) ==
  /\ decode(line).ok
  /\ <<KEY_TYPE, VALUE_CMD>> \in FieldsOf(line)
  /\ \E cmd \in {CMD_SET_MODE, CMD_JOINTS_TO_ANGLE, CMD_JOINT_EN, CMD_ESTOP,
                 CMD_CALIBRATE_JOINT} :
       <<SubSeq(KEY_CMD, 1, 3), cmd>> \in FieldsOf(line)

\* C19: a received line causes at most one ACK; an ACK is written only for a
\* received line that is a command, and it is the echo of that line.
C19_OneAckPerCommand ==
  (sent = 1 /\ Processed) =>
    /\ Len(serialOut) <= 1
    /\ Len(serialOut) = 1 =>
         /\ IsCommandLine(lastLine)
         /\ serialOut[1] = AckOf(lastLine)

\* C20: a line that is no command of the protocol (TYPE other than CMD, no
\* TYPE, no CMD field, a command that is not registered) changes nothing,
\* nothing is written back, and the line buffer is empty for the next line.
C20_NoCommandDropped ==
  (Processed /\ lastLine \in NoCommandLines)
    => (Snapshot = prev /\ serialOut = <<>> /\ inLine = <<>>)

\* C21: a registered command that lacks a required field or carries a value
\* outside its domain is dropped: no state change and no ACK.
C21_InvalidCommandDropped ==
  (Processed /\ lastLine \in InvalidLines)
    => (Snapshot = prev /\ serialOut = <<>>)

\* C22: when the device has executed a line and the same line is delivered
\* and executed again, the second execution leaves mode, enable flags and
\* target angles as the first left them and writes the same ACK.
C22_DuplicateIsIdempotent ==
  (Processed /\ twice.dup) => (Snapshot = prev /\ serialOut = twice.out)

C22_Witness ==
  /\ Processed
  /\ twice.dup
  /\ lastLine = LineJointsToAng
  /\ currentMode = MODE_MOVE
  /\ jointTargetAngles[1] = 455
  /\ serialOut = <<AckOf(LineJointsToAng)>>

\* C25: every joint's target angle lies within JOINT_MIN_ANGLE ..
\* JOINT_MAX_ANGLE after any sequence of lines; an angle outside that
\* domain never becomes a target.
C25_TargetsInDomain ==
  \A i \in Joints :
    JOINT_MIN_ANGLE <= jointTargetAngles[i]
      /\ jointTargetAngles[i] <= JOINT_MAX_ANGLE

\* the enable flag of joint i after a JOINT_EN line, given the flag before:
\* true for the field JOINT_<i>_EN=1, false for JOINT_<i>_EN=0, else kept
EnableAfter(line, i, before) ==
  LET key == KEY_JOINT \o StringOfInt(i) \o <<"_", "E", "N">>
  IN IF <<key, <<"1">>>> \in FieldsOf(line) THEN TRUE
     ELSE IF <<key, <<"0">>>> \in FieldsOf(line) THEN FALSE
     ELSE before

\* C28: a JOINT_EN line, in any mode, sets the flag of every joint it names
\* to true for value 1 and false for value 0, keeps the flags of the other
\* joints, the mode and the target angles, and is ACKed once.
C28_JointEnFrame ==
  (Processed /\ lastLine \in JointEnLines)
    => /\ \A i \in Joints :
            jointEnabled[i] = EnableAfter(lastLine, i, prev.jointEnabled[i])
       /\ currentMode = prev.currentMode
       /\ jointTargetAngles = prev.jointTargetAngles
       /\ serialOut = <<AckOf(lastLine)>>

C28_Witness ==
  /\ Processed
  /\ lastLine = LineJointEn12
  /\ prev.currentMode = MODE_RESERVED
  /\ prev.jointEnabled = <<FALSE, FALSE, TRUE, FALSE, FALSE, FALSE>>
  /\ prev.jointTargetAngles[1] = 455
  /\ jointEnabled = <<TRUE, TRUE, TRUE, FALSE, FALSE, FALSE>>

\* C29: the mode is always one of 0..3, and it changes only when the line
\* executed is a SET_MODE whose MODE value is one of 0..3.
C29_ModeOnlyBySetMode ==
  /\ currentMode \in {MODE_IDLE, MODE_CALIBRATION, MODE_MOVE, MODE_RESERVED}
  /\ (Processed /\ currentMode # prev.currentMode)
       => lastLine \in {LineSetMode(StringOfInt(m)) : m \in 0..3}

\* C30: SET_MODE with MODE 1, 2 or 3 leaves every enable flag and every
\* target angle as it was.
C30_ModeEntryKeepsJoints ==
  (Processed /\ lastLine \in {LineSetMode(StringOfInt(m)) : m \in 1..3})
    => /\ jointEnabled = prev.jointEnabled
       /\ jointTargetAngles = prev.jointTargetAngles

C30_Witness ==
  /\ Processed
  /\ lastLine = LineSetMode(<<"1">>)
  /\ prev.currentMode = MODE_MOVE
  /\ currentMode = MODE_CALIBRATION
  /\ jointEnabled = <<TRUE, TRUE, TRUE, TRUE, TRUE, FALSE>>
  /\ jointTargetAngles[1] = 455

\* C23: a telemetry packet is written only in a step taken in CALIBRATION
\* or MOVE mode; in IDLE and RESERVED none is written.
C23_TelemetryOnlyInCalOrMove ==
  [][(\E k \in 1..Len(passOut') :
        k > Len(passOut) /\ IsTelemetry(passOut'[k]))
       => (currentMode \in {MODE_CALIBRATION, MODE_MOVE}
             /\ currentMode' = currentMode)
    ]_vars

C23_Witness ==
  /\ pc = "tail"
  /\ TelemetryInPass
  /\ currentMode = MODE_CALIBRATION

\* the pieces of a line between its commas, in order
RECURSIVE PiecesOf(_)
PiecesOf(text) ==
  LET c == indexOfChar(text, Comma, 0)
  IN IF c = -1 THEN <<text>>
     ELSE <<SubSeq(text, 1, c)>> \o PiecesOf(SubSeq(text, c + 2, Len(text)))

\* the keys ENCODER_<i>_ANGLE of the enabled joints i..NUM_JOINTS, ascending
RECURSIVE EncoderKeys(_, _)
EncoderKeys(en, i) ==
  IF i > NUM_JOINTS THEN <<>>
  ELSE (IF en[i]
        THEN <<Tail(TELEM_ENCODER) \o StringOfInt(i)
                 \o SubSeq(TELEM_ANGLE, 1, Len(TELEM_ANGLE) - 1)>>
        ELSE <<>>) \o EncoderKeys(en, i + 1)

C27_TelemetrySpacing ==
  telemGap = -1 \/ telemGap >= TELEM_INTERVAL_MS

C27_Witness ==
  /\ TelemetryInPass
  /\ telemGap = TELEM_INTERVAL_MS
  /\ now < TELEM_INTERVAL_MS

\* C26: the receiver loop stores a line in the mailbox only if it is an ACK,
\* replacing whatever the slot held; a DATA line goes to the telemetry sink
\* and leaves the mailbox alone; any other line is discarded; in each case
\* the lines behind it stay queued for the loop to process.
C26_ReceiverRoutes ==
  [][Len(up') < Len(up) =>
       LET line == SubSeq(Head(up).text, 1, Len(Head(up).text) - 1)
       IN /\ up' = Tail(up)
          /\ line \in RecvAcks =>
               /\ mailbox'.text = line
               /\ sink' = sink /\ dropped' = dropped
          /\ line \in RecvData =>
               /\ mailbox' = mailbox
               /\ Len(sink') = Len(sink) + 1
               /\ {<<sink'[Len(sink')][j].key, sink'[Len(sink')][j].value>> :
                     j \in 1..Len(sink'[Len(sink')])} = FieldsOf(line)
               /\ dropped' = dropped
          /\ line \in RecvOther =>
               /\ mailbox' = mailbox
               /\ sink' = sink /\ dropped' = dropped + 1
    ]_vars

C26_Witness ==
  /\ up = <<>>
  /\ stores = 2
  /\ mailbox.text = ackText(LineJointEn12)
  /\ Len(sink) = 1
  /\ dropped = 1

\* C31: for SET_MODE, JOINT_EN and ESTOP the state change is made before the
\* ACK is written: when sendAck runs, mode, enable flags and target angles
\* already are what the command prescribes, and they are what the device
\* holds once the line is processed.
C31_StateBeforeAck ==
  Processed =>
    /\ \A m \in 0..3 :
         lastLine = LineSetMode(StringOfInt(m))
           => ackSeen = <<[prev EXCEPT !.currentMode = m]>>
    /\ lastLine \in JointEnLines
         => ackSeen =
              <<[prev EXCEPT !.jointEnabled =
                   [i \in Joints |-> EnableAfter(lastLine, i, @[i])]]>>
    /\ lastLine \in {LineEstop, LineEstopNote}
         => ackSeen = <<[prev EXCEPT !.jointEnabled = [i \in Joints |-> FALSE]]>>
    /\ lastLine \in {LineSetMode(StringOfInt(m)) : m \in 0..3}
                      \cup JointEnLines \cup {LineEstop, LineEstopNote}
         => (Len(serialOut) = 1 /\ ackSeen = <<Snapshot>>)

C31_Witness ==
  /\ Processed
  /\ lastLine = LineSetMode(<<"2">>)
  /\ prev.currentMode = MODE_CALIBRATION
  /\ prev.jointEnabled = <<TRUE, TRUE, FALSE, FALSE, FALSE, FALSE>>
  /\ Len(serialOut) = 1
  /\ ackSeen[1].currentMode = MODE_MOVE

C32_WitnessCalibration ==
  /\ Processed
  /\ lastLine = LineEstop
  /\ prev.currentMode = MODE_CALIBRATION
  /\ \E i \in Joints : prev.jointEnabled[i]
  /\ AllDisabled

C32_WitnessReserved ==
  /\ Processed
  /\ lastLine = LineEstop
  /\ prev.currentMode = MODE_RESERVED
  /\ \E i \in Joints : prev.jointEnabled[i]
  /\ AllDisabled

\* what a line of the protocol prescribes for mode, flags and targets
After(line, before) ==
  IF line \in {LineSetMode(StringOfInt(m)) : m \in 0..3}
  THEN [before EXCEPT !.currentMode =
          CHOOSE m \in 0..3 : line = LineSetMode(StringOfInt(m))]
  ELSE IF line \in JointEnLines
  THEN [before EXCEPT !.jointEnabled =
          [i \in Joints |-> EnableAfter(line, i, @[i])]]
  ELSE IF line = LineEstop
  THEN [before EXCEPT !.jointEnabled = [i \in Joints |-> FALSE]]
  ELSE before

\* two lines written together are executed first to last, the ACK of the
\* first being written in the state the first left, ahead of the second
C33_InOrder ==
  \A p \in OrderPairs :
    (Processed /\ lastLine = p[1] \o <<LF>> \o p[2])
      => /\ ackSeen = <<After(p[1], prev), After(p[2], After(p[1], prev))>>
         /\ Snapshot = After(p[2], After(p[1], prev))
         /\ SelectSeq(serialOut, LAMBDA l : ~IsTelemetry(l))
              = <<AckOf(p[1]), AckOf(p[2])>>

\* a step that changes mode, flags or targets is a step of listenPackets; it
\* writes the ACK of every change it makes and no telemetry packet
C33_AckInStep ==
  Snapshot' # Snapshot
    => /\ pc = "listen"
       /\ Len(ackSeen') > Len(ackSeen)
       /\ ackSeen'[Len(ackSeen')] = Snapshot'
       /\ Len(serialOut') = Len(serialOut) + Len(ackSeen') - Len(ackSeen)
       /\ \A k \in (Len(serialOut) + 1)..Len(serialOut') :
            ~IsTelemetry(serialOut'[k])

\* C33: commands are executed in the order their newlines arrive and their
\* ACKs are written in that order; the ACK of a command is written before
\* any later command is executed, and no telemetry packet is written between
\* a command's state change and its ACK.
C33_CommandsInOrder == []C33_InOrder /\ [][C33_AckInStep]_vars

C33_Witness ==
  /\ Processed
  /\ lastLine = LineJointEn(1, <<"1">>) \o <<LF>> \o LineEstop
  /\ prev.currentMode = MODE_MOVE
  /\ ~prev.jointEnabled[1]
  /\ Len(ackSeen) = 2
  /\ ackSeen[1].jointEnabled[1]
  /\ AllDisabled
  /\ Len(serialOut) = 3

\* the host has written its last line and all of it has arrived
InputOver == sent = MaxLines /\ wire = <<>>

\* the telemetry check of the pass found the interval elapsed and skipped
\* the packet because bytes were pending; loop() has a pass to go
TelemetrySkipped ==
  /\ pc = "tail"
  /\ passPending > 0
  /\ ULongSub(now, lastTelemMs) >= TELEM_INTERVAL_MS
  /\ passes < MaxLivePasses

\* a telemetry check that is skipped for pending input leaves lastTelemMs
\* as it was, so the packet stays due
C34_StaysDue ==
  (pc = "telem" /\ pc' = "tail" /\ passPending' > 0)
    => (lastTelemMs' = lastTelemMs /\ serialOut' = serialOut)

\* C34: loop() being called again and again, a complete command line that
\* Serial holds is executed and ACKed, and once no more input arrives a
\* telemetry packet that was skipped for pending input is written in a
\* later pass, if the mode then is CALIBRATION or MOVE.
C34_EventuallyServed ==
  /\ (InputOver /\ rx # <<>> /\ (pc = "listen" \/ passes < MaxLivePasses))
       ~> (rx = <<>> /\ AckOf(lastLine) \in {serialOut[k] : k \in 1..Len(serialOut)})
  /\ (InputOver /\ TelemetrySkipped)
       ~> (TelemetryInPass
             \/ ~(currentMode = MODE_CALIBRATION \/ currentMode = MODE_MOVE))
  /\ [][C34_StaysDue]_vars

C34_Witness ==
  /\ InputOver
  /\ TelemetryInPass
  /\ passStartBuf # <<>>
  /\ passRead = Len(passStartBuf)
  /\ inLine = <<>>
  /\ passOut[1] = AckOf(lastLine)
  /\ currentMode = MODE_MOVE

\* the same line arriving at once, ended by a single LF, in the state before
AtOnce(line, before) ==
  listenBytes(line \o <<LF>>,
              [currentMode |-> before.currentMode,
               jointEnabled |-> before.jointEnabled,
               jointTargetAngles |-> before.jointTargetAngles,
               inLine |-> <<>>, acks |-> <<>>, seen |-> <<>>])

\* C35: a command whose bytes arrive over several passes of loop(), or that
\* is ended by CR LF, or that follows empty lines, changes mode, flags and
\* targets exactly as the same command arriving at once with a single LF,
\* and is ACKed with the same text; the line buffer is empty after it.
C35_FramingIndependent ==
  Processed =>
    /\ Snapshot = [currentMode |-> AtOnce(lastLine, prev).currentMode,
                   jointEnabled |-> AtOnce(lastLine, prev).jointEnabled,
                   jointTargetAngles |->
                     AtOnce(lastLine, prev).jointTargetAngles]
    /\ SelectSeq(serialOut, LAMBDA l : ~IsTelemetry(l))
         = AtOnce(lastLine, prev).acks
    /\ inLine = <<>>

\* the line was read over more than one pass, and a telemetry packet was
\* written after the host wrote it and before it was ACKed
C35_Witness ==
  /\ Processed
  /\ lastLine = LineEstop
  /\ prev.currentMode = MODE_MOVE
  /\ passRead > 0
  /\ passRead < Len(lastLine)
  /\ Len(serialOut) >= 2
  /\ IsTelemetry(serialOut[1])
  /\ serialOut[Len(serialOut)] = AckOf(LineEstop)
  /\ AllDisabled

====
